---- MODULE Spec2Model ----
(***************************************************************************)
(* Stripe webhook handler of boutique_ado (checkout/webhook_handler.py).   *)
(* StripeWH_Handler.handle_payment_intent_succeeded is modelled statement  *)
(* by statement: every database operation of the handler is one step, so   *)
(* that concurrent deliveries interleave between any two of them.          *)
(***************************************************************************)
EXTENDS Integers, Sequences, FiniteSets, TLC

(* ---------------------------------------------------------------------- *)
(* Values                                                                  *)
(* ---------------------------------------------------------------------- *)

\* Python's None (a missing attribute, a missing metadata key, a NULL column)
NoneVal == "<None>"

\* Python's True as a metadata value, as opposed to the string 'true'
PyTrue == "<True>"

\* a value that is falsy in Python: None or the empty string
Falsy(v) == v = NoneVal \/ v = ""

\* Python's  a or b  on strings
Or(a, b) == IF Falsy(a) THEN b ELSE a

\* the case folding behind Django's __iexact, on the text values of the model
Lower(s) ==
    CASE s = "Ann Lee" -> "ann lee"
      [] s = "ANN LEE" -> "ann lee"
      [] s = "Ann@X.io" -> "ann@x.io"
      [] s = "N1 9GU" -> "n1 9gu"
      [] OTHER -> s

IExact(stored, given) == Lower(stored) = Lower(given)

(* ---------------------------------------------------------------------- *)
(* Cart snapshots (metadata "bag") and json.loads                          *)
(* ---------------------------------------------------------------------- *)

BagEmpty == "{}"
BagPlain == "{\"1\": 3}"
BagSized == "{\"1\": {\"items_by_size\": {\"M\": 2, \"L\": 1}}}"
BagMixed == "{\"2\": {\"items_by_size\": {\"M\": 2, \"L\": 1}}, \"9\": 1, \"1\": 2}"
BagNotJson == "{not json"
BagList == "[1, 2]"
BagBadValue == "{\"1\": \"x\"}"

\* Product ids present in the catalog (Product.objects)
Catalog == {"1", "2"}

NoSizes == << >>

IntEntry(id, q) == [id |-> id, kind |-> "int", qty |-> q, sizes |-> NoSizes]
DictEntry(id, s) == [id |-> id, kind |-> "dict", qty |-> 0, sizes |-> s]
OtherEntry(id) == [id |-> id, kind |-> "other", qty |-> 0, sizes |-> NoSizes]
SizeQty(s, q) == [size |-> s, qty |-> q]

Parsed(entries) == [ok |-> TRUE, mapping |-> TRUE, entries |-> entries]

\* json.loads(bag): ok = FALSE is json.JSONDecodeError; mapping says whether
\* the decoded value is a dict; entries are the dict's items in document
\* order; an entry's kind is "int" (isinstance(item_data, int)), "dict" with
\* sizes = item_data.get("items_by_size", {}).items(), or "other" (a value
\* without .get).
JsonLoads(bag) ==
    CASE bag = BagEmpty -> Parsed(<< >>)
      [] bag = BagPlain -> Parsed(<< IntEntry("1", 3) >>)
      [] bag = BagSized ->
            Parsed(<< DictEntry("1", << SizeQty("M", 2), SizeQty("L", 1) >>) >>)
      [] bag = BagMixed ->
            Parsed(<< DictEntry("2", << SizeQty("M", 2), SizeQty("L", 1) >>),
                      IntEntry("9", 1), IntEntry("1", 2) >>)
      [] bag = BagList -> [ok |-> TRUE, mapping |-> FALSE, entries |-> << >>]
      [] bag = BagBadValue -> Parsed(<< OtherEntry("1") >>)
      [] OTHER -> [ok |-> FALSE, mapping |-> FALSE, entries |-> << >>]

(* ---------------------------------------------------------------------- *)
(* Payment events (event.data.object, a Stripe PaymentIntent)              *)
(* ---------------------------------------------------------------------- *)

\* A PaymentIntent with every attribute the handler reads. NoneVal stands
\* for an attribute, key or sub-object that is missing.
BaseEvent ==
    [ id |-> "pi_1",
      bag |-> BagPlain,
      save_info |-> "true",
      username |-> "ann",
      meta_email |-> NoneVal,
      has_charge |-> TRUE,
      charge_amount |-> 4999,
      charge_email |-> "ann@x.io",
      amount_received |-> 4999,
      intent_email |-> NoneVal,
      name |-> "Ann Lee",
      phone |-> "555",
      country |-> "GB",
      postal_code |-> "n1 9gu",
      city |-> "london",
      line1 |-> "1 high st",
      line2 |-> "",
      state |-> NoneVal ]

EvSized == [BaseEvent EXCEPT !.bag = BagSized, !.username = "bob"]
EvMixed == [BaseEvent EXCEPT !.bag = BagMixed, !.save_info = "false"]
EvNotJson == [BaseEvent EXCEPT !.bag = BagNotJson, !.username = NoneVal,
                               !.save_info = NoneVal]
EvList == [BaseEvent EXCEPT !.bag = BagList, !.save_info = PyTrue,
                            !.postal_code = "", !.city = "rome"]
EvBadValue == [BaseEvent EXCEPT !.bag = BagBadValue, !.username = "AnonymousUser"]
EvUpper == [BaseEvent EXCEPT !.name = "ANN LEE", !.charge_email = "Ann@X.io",
                             !.postal_code = "N1 9GU"]
EvOtherAddress == [BaseEvent EXCEPT !.line1 = "2 low rd", !.phone = NoneVal]
EvBare ==
    [BaseEvent EXCEPT !.bag = NoneVal, !.save_info = NoneVal,
                      !.username = NoneVal, !.meta_email = "meta@x.io",
                      !.has_charge = FALSE, !.amount_received = 1250,
                      !.charge_email = NoneVal, !.name = NoneVal,
                      !.phone = NoneVal, !.country = NoneVal,
                      !.postal_code = NoneVal, !.city = NoneVal,
                      !.line1 = NoneVal, !.line2 = NoneVal]

\* an intent without id: getattr(intent, "id", None) is None
EvNoId == [BaseEvent EXCEPT !.id = NoneVal]

Events ==
    { BaseEvent, EvSized, EvMixed, EvNotJson, EvList, EvBadValue,
      EvUpper, EvOtherAddress, EvBare, EvNoId }

(* ---------------------------------------------------------------------- *)
(* Field extraction and normalization                                      *)
(* ---------------------------------------------------------------------- *)

pid(e) == e.id

bag(e) == Or(e.bag, "{}")

save_info(e) == e.save_info \in {"true", PyTrue}

username(e) == Or(e.username, "AnonymousUser")

email_to_send(e) == Or(e.meta_email, NoneVal)

\* charges and charges.data: the first charge's billing details, else the
\* intent's
billing_email(e) == IF e.has_charge THEN e.charge_email ELSE e.intent_email

\* round(amount / 100, 2): a decimal with two places, held as units and
\* hundredths
Round2(amount) == [units |-> amount \div 100, cents |-> amount % 100]

grand_total(e) ==
    IF e.has_charge THEN Round2(e.charge_amount) ELSE Round2(e.amount_received)

\* "Clean empty fields": an address value "" becomes None
Clean(v) == IF v = "" THEN NoneVal ELSE v

address(e) ==
    [ country |-> Clean(e.country),
      postal_code |-> Clean(e.postal_code),
      city |-> Clean(e.city),
      line1 |-> Clean(e.line1),
      line2 |-> Clean(e.line2),
      state |-> Clean(e.state) ]

\* the keyword arguments of Order.objects.get
LookupKey(e) ==
    [ full_name |-> Or(e.name, ""),
      email |-> Or(billing_email(e), ""),
      phone_number |-> Or(e.phone, ""),
      country |-> Or(address(e).country, ""),
      postcode |-> Or(address(e).postal_code, ""),
      town_or_city |-> Or(address(e).city, ""),
      street_address1 |-> Or(address(e).line1, ""),
      street_address2 |-> Or(address(e).line2, ""),
      county |-> Or(address(e).state, ""),
      grand_total |-> grand_total(e),
      original_bag |-> bag(e),
      stripe_pid |-> pid(e) ]

\* the keyword arguments of Order.objects.create; user_profile is the
\* profile's user name or None
OrderFields(e, user_profile) ==
    [ full_name |-> Or(e.name, ""),
      user_profile |-> user_profile,
      email |-> Or(billing_email(e), ""),
      phone_number |-> Or(e.phone, ""),
      country |-> Or(address(e).country, ""),
      postcode |-> Or(address(e).postal_code, ""),
      town_or_city |-> Or(address(e).city, ""),
      street_address1 |-> Or(address(e).line1, ""),
      street_address2 |-> Or(address(e).line2, ""),
      county |-> Or(address(e).state, ""),
      grand_total |-> grand_total(e),
      original_bag |-> bag(e),
      stripe_pid |-> pid(e) ]

\* Matches on the transaction id alone
MatchesPidOnly(o, k) == o.stripe_pid = k.stripe_pid

\* does the stored Order o satisfy the lookup with key k: __iexact on the
\* text columns, equality on grand_total, original_bag and stripe_pid
Matches(o, k) ==
    /\ IExact(o.full_name, k.full_name)
    /\ IExact(o.email, k.email)
    /\ IExact(o.phone_number, k.phone_number)
    /\ IExact(o.country, k.country)
    /\ IExact(o.postcode, k.postcode)
    /\ IExact(o.town_or_city, k.town_or_city)
    /\ IExact(o.street_address1, k.street_address1)
    /\ IExact(o.street_address2, k.street_address2)
    /\ IExact(o.county, k.county)
    /\ o.grand_total = k.grand_total
    /\ o.original_bag = k.original_bag
    /\ o.stripe_pid = k.stripe_pid

\* the profile as the opt-in update leaves it in memory
UpdatedProfile(p, e) ==
    [ p EXCEPT
        !.default_phone_number = Or(e.phone, p.default_phone_number),
        !.default_country = Or(address(e).country, p.default_country),
        !.default_postcode = Or(address(e).postal_code, p.default_postcode),
        !.default_town_or_city = Or(address(e).city, p.default_town_or_city),
        !.default_street_address1 = Or(address(e).line1, p.default_street_address1),
        !.default_street_address2 = Or(address(e).line2, p.default_street_address2),
        !.default_county = Or(address(e).state, p.default_county) ]

(* ---------------------------------------------------------------------- *)
(* State                                                                   *)
(* ---------------------------------------------------------------------- *)

\* the invocations of the handler that may run at the same time
Handlers == {"h1", "h2"}

\* deliveries of payment_intent.succeeded events made in one behaviour
MaxDeliveries == 3

\* the lookup attempts of one invocation:  while attempt <= 5
MaxAttempts == 5

\* time.sleep(1) after a miss
SleepDelay == 1

\* the user names that have a UserProfile
Usernames == {"ann"}

InitialProfile(u) ==
    [ user |-> u,
      default_phone_number |-> "0100",
      default_country |-> "IE",
      default_postcode |-> "d01",
      default_town_or_city |-> "dublin",
      default_street_address1 |-> "5 quay",
      default_street_address2 |-> "flat 2",
      default_county |-> "leinster",
      user_email |-> "ann@account.io" ]

VARIABLES
    orders,      \* Order rows: the OrderFields record with its primary key id
    lineItems,   \* OrderLineItem rows: [order, product, quantity, product_size]
    profiles,    \* UserProfile rows by user name
    nextId,      \* the next primary key of an Order
    deliveries,  \* events delivered so far
    history,     \* the responses returned so far, in order: [ev, status, outcome]
    pc,          \* where each invocation stands
    ev,          \* the invocation's event (event.data.object)
    profile,     \* local  profile: {} is None, else the loaded object
    order,       \* local  order: {} is None, else the found or created object
    attempt,     \* local  attempt
    slept,       \* time units the invocation has slept
    items,       \* bag_data.items() still to be visited
    sizes,       \* items_by_size.items() of the current item still to be visited
    mails,       \* _send_confirmation_email calls of the invocation: [to, sent]
    response,    \* the HttpResponse returned, status 0 while there is none
    raised       \* the exception that left the handler, "" while there is none

vars ==
    << orders, lineItems, profiles, nextId, deliveries, history, pc, ev, profile,
       order, attempt, slept, items, sizes, mails, response, raised >>

store == << orders, lineItems, profiles, nextId >>

locals == << profile, order, attempt, slept, items, sizes, mails >>

NoResponse == [status |-> 0, outcome |-> ""]

AlreadyRecorded == [status |-> 200, outcome |-> "AlreadyRecorded"]

Created == [status |-> 200, outcome |-> "Created"]

CreationFailed == [status |-> 500, outcome |-> "CreationFailed"]

Init ==
    /\ orders = {}
    /\ lineItems = {}
    /\ profiles = [u \in Usernames |-> InitialProfile(u)]
    /\ nextId = 1
    /\ deliveries = 0
    /\ history = << >>
    /\ pc = [h \in Handlers |-> "idle"]
    /\ ev = [h \in Handlers |-> BaseEvent]
    /\ profile = [h \in Handlers |-> {}]
    /\ order = [h \in Handlers |-> {}]
    /\ attempt = [h \in Handlers |-> 1]
    /\ slept = [h \in Handlers |-> 0]
    /\ items = [h \in Handlers |-> << >>]
    /\ sizes = [h \in Handlers |-> << >>]
    /\ mails = [h \in Handlers |-> << >>]
    /\ response = [h \in Handlers |-> NoResponse]
    /\ raised = [h \in Handlers |-> ""]

\* the stored Orders the lookup of event e selects
Found(e) == {o \in orders : Matches(o, LookupKey(e))}

\* the handler returns response r: the transport records it
Return(h, r) ==
    /\ response' = [response EXCEPT ![h] = r]
    /\ history' = Append(history, [ev |-> ev[h], status |-> r.status,
                                   outcome |-> r.outcome])
    /\ pc' = [pc EXCEPT ![h] = "done"]
    /\ UNCHANGED raised

\* exception x leaves the handler
Raise(h, x) ==
    /\ raised' = [raised EXCEPT ![h] = x]
    /\ pc' = [pc EXCEPT ![h] = "raised"]
    /\ UNCHANGED << response, history >>

Goto(h, label) ==
    /\ pc' = [pc EXCEPT ![h] = label]
    /\ UNCHANGED << response, history, raised >>


(* ---------------------------------------------------------------------- *)
(* _send_confirmation_email                                                *)
(* ---------------------------------------------------------------------- *)

\* order.email or email_to_send or getattr(order.user_profile.user, 'email',
\* None); with no profile on the order the last operand raises AttributeError
NoRecipient == "<AttributeError>"

Recipient(o, override) ==
    IF ~Falsy(Or(o.email, override)) THEN Or(o.email, override)
    ELSE IF o.user_profile = NoneVal THEN NoRecipient
    ELSE profiles[o.user_profile].user_email

\* One call: the recipient is computed, the templates are rendered and the
\* mail is sent; delivered = FALSE is any exception of these, caught and
\* printed. Nothing but the mail leaves the call.
SendConfirmationEmail(h, o, override, delivered) ==
    mails' = [mails EXCEPT ![h] =
                Append(@, [to |-> Recipient(o, override),
                           sent |-> delivered /\ Recipient(o, override) # NoRecipient])]

(* ---------------------------------------------------------------------- *)
(* handle_payment_intent_succeeded                                         *)
(* ---------------------------------------------------------------------- *)

\* The event arrives: the fields are read and the locals are initialised.
Deliver(h, e) ==
    /\ pc[h] \in {"idle", "done", "raised"}
    /\ deliveries < MaxDeliveries
    /\ deliveries' = deliveries + 1
    /\ ev' = [ev EXCEPT ![h] = e]
    /\ profile' = [profile EXCEPT ![h] = {}]
    /\ order' = [order EXCEPT ![h] = {}]
    /\ attempt' = [attempt EXCEPT ![h] = 1]
    /\ slept' = [slept EXCEPT ![h] = 0]
    /\ items' = [items EXCEPT ![h] = << >>]
    /\ sizes' = [sizes EXCEPT ![h] = << >>]
    /\ mails' = [mails EXCEPT ![h] = << >>]
    /\ response' = [response EXCEPT ![h] = NoResponse]
    /\ raised' = [raised EXCEPT ![h] = ""]
    /\ pc' = [pc EXCEPT ![h] = "profile"]
    /\ UNCHANGED << store, history >>

\* the responses of the two handlers that only acknowledge
Unhandled == [status |-> 200, outcome |-> "Unhandled"]

PaymentFailed == [status |-> 200, outcome |-> "PaymentFailed"]

\* a whole invocation that builds its HttpResponse and returns: a fresh
\* frame, no statement between entry and return
Acknowledge(h, e, r) ==
    /\ pc[h] \in {"idle", "done", "raised"}
    /\ deliveries < MaxDeliveries
    /\ deliveries' = deliveries + 1
    /\ ev' = [ev EXCEPT ![h] = e]
    /\ profile' = [profile EXCEPT ![h] = {}]
    /\ order' = [order EXCEPT ![h] = {}]
    /\ attempt' = [attempt EXCEPT ![h] = 1]
    /\ slept' = [slept EXCEPT ![h] = 0]
    /\ items' = [items EXCEPT ![h] = << >>]
    /\ sizes' = [sizes EXCEPT ![h] = << >>]
    /\ mails' = [mails EXCEPT ![h] = << >>]
    /\ response' = [response EXCEPT ![h] = r]
    /\ raised' = [raised EXCEPT ![h] = ""]
    /\ history' = Append(history, [ev |-> e, status |-> r.status,
                                   outcome |-> r.outcome])
    /\ pc' = [pc EXCEPT ![h] = "done"]

\* handle_event: any event type without a handler of its own
HandleEvent(h, e) ==
    /\ Acknowledge(h, e, Unhandled)
    /\ UNCHANGED store

\* handle_payment_intent_payment_failed that removes the Order recorded for
\* the event
HandlePaymentFailedDeletesOrder(h, e) ==
    /\ Acknowledge(h, e, PaymentFailed)
    /\ orders' = orders \ Found(e)
    /\ lineItems' = {l \in lineItems : \A o \in Found(e) : l.order # o.id}
    /\ UNCHANGED << profiles, nextId >>

\* handle_payment_intent_payment_failed
HandlePaymentFailed(h, e) ==
    /\ Acknowledge(h, e, PaymentFailed)
    /\ UNCHANGED store

\* GetProfile without profile.save(): the update stays in the loaded object
GetProfileWithoutSave(h) ==
    /\ pc[h] = "profile"
    /\ LET u == username(ev[h]) IN
        IF u # "AnonymousUser" /\ u \in DOMAIN profiles
        THEN IF save_info(ev[h])
             THEN /\ profile' = [profile EXCEPT ![h] = {UpdatedProfile(profiles[u], ev[h])}]
                  /\ Goto(h, "lookup")
             ELSE /\ profile' = [profile EXCEPT ![h] = {profiles[u]}]
                  /\ Goto(h, "lookup")
        ELSE /\ profile' = [profile EXCEPT ![h] = {}]
             /\ Goto(h, "lookup")
    /\ UNCHANGED << store, deliveries, ev, order, attempt, slept, items, sizes, mails >>

\* UserProfile.objects.get and the opt-in update of the loaded object
GetProfile(h) ==
    /\ pc[h] = "profile"
    /\ LET u == username(ev[h]) IN
        IF u # "AnonymousUser" /\ u \in DOMAIN profiles
        THEN IF save_info(ev[h])
             THEN /\ profile' = [profile EXCEPT ![h] = {UpdatedProfile(profiles[u], ev[h])}]
                  /\ Goto(h, "save")
             ELSE /\ profile' = [profile EXCEPT ![h] = {profiles[u]}]
                  /\ Goto(h, "lookup")
        ELSE /\ profile' = [profile EXCEPT ![h] = {}]
             /\ Goto(h, "lookup")
    /\ UNCHANGED << store, deliveries, ev, order, attempt, slept, items, sizes, mails >>

\* profile.save(): every column of the row is written from the loaded object
SaveProfile(h) ==
    /\ pc[h] = "save"
    /\ profiles' = [u \in DOMAIN profiles |->
                      IF \E p \in profile[h] : p.user = u
                      THEN CHOOSE p \in profile[h] : p.user = u
                      ELSE profiles[u]]
    /\ Goto(h, "lookup")
    /\ UNCHANGED << orders, lineItems, nextId, deliveries, ev, locals >>

\* LookupOrder with  while attempt < 5
LookupOrderOneShort(h) ==
    /\ pc[h] = "lookup"
    /\ LET found == Found(ev[h]) IN
        IF Cardinality(found) = 1
        THEN /\ order' = [order EXCEPT ![h] = found]
             /\ Goto(h, "found")
             /\ UNCHANGED << attempt, slept >>
        ELSE IF found = {}
        THEN /\ attempt' = [attempt EXCEPT ![h] = @ + 1]
             /\ slept' = [slept EXCEPT ![h] = @ + SleepDelay]
             /\ Goto(h, IF attempt[h] + 1 < MaxAttempts THEN "lookup" ELSE "create")
             /\ UNCHANGED order
        ELSE /\ Raise(h, "MultipleObjectsReturned")
             /\ UNCHANGED << order, attempt, slept >>
    /\ UNCHANGED << store, deliveries, ev, profile, items, sizes, mails >>

\* One pass of  while attempt <= 5:  Order.objects.get
LookupOrder(h) ==
    /\ pc[h] = "lookup"
    /\ LET found == Found(ev[h]) IN
        IF Cardinality(found) = 1
        THEN /\ order' = [order EXCEPT ![h] = found]
             /\ Goto(h, "found")
             /\ UNCHANGED << attempt, slept >>
        ELSE IF found = {}
        THEN /\ attempt' = [attempt EXCEPT ![h] = @ + 1]
             /\ slept' = [slept EXCEPT ![h] = @ + SleepDelay]
             /\ Goto(h, IF attempt[h] + 1 <= MaxAttempts THEN "lookup" ELSE "create")
             /\ UNCHANGED order
        ELSE /\ Raise(h, "MultipleObjectsReturned")
             /\ UNCHANGED << order, attempt, slept >>
    /\ UNCHANGED << store, deliveries, ev, profile, items, sizes, mails >>

\* if order_exists: the confirmation is sent and the handler returns
SendExisting(h) ==
    /\ pc[h] = "found"
    /\ \E delivered \in BOOLEAN, o \in order[h] :
            SendConfirmationEmail(h, o, NoneVal, delivered)
    /\ Return(h, AlreadyRecorded)
    /\ UNCHANGED << store, deliveries, ev, profile, order, attempt, slept, items, sizes >>

\* the user_profile argument of Order.objects.create
ProfileKey(h) == IF profile[h] = {} THEN NoneVal ELSE (CHOOSE p \in profile[h] : TRUE).user

\* BagData with json.JSONDecodeError not caught
BagDataUncaught(e) == JsonLoads(bag(e))

\* the decoded bag; a JSONDecodeError leaves {}
BagData(e) == IF JsonLoads(bag(e)).ok THEN JsonLoads(bag(e)) ELSE Parsed(<< >>)

\* CreateOrder that takes a decoded value that is no dict for an empty bag
CreateOrderAnyShape(h) ==
    /\ pc[h] = "create"
    /\ LET o == [id |-> nextId] @@ OrderFields(ev[h], ProfileKey(h)) IN
        /\ orders' = orders \cup {o}
        /\ order' = [order EXCEPT ![h] = {o}]
    /\ nextId' = nextId + 1
    /\ items' = [items EXCEPT ![h] = BagData(ev[h]).entries]
    /\ Goto(h, "items")
    /\ UNCHANGED << lineItems, profiles, deliveries, ev, profile, attempt, slept, sizes, mails >>

\* Order.objects.create succeeds; the bag is decoded and bag_data.items() is
\* taken, which raises when the decoded value is no dict
CreateOrder(h) ==
    /\ pc[h] = "create"
    /\ LET o == [id |-> nextId] @@ OrderFields(ev[h], ProfileKey(h)) IN
        /\ orders' = orders \cup {o}
        /\ order' = [order EXCEPT ![h] = {o}]
    /\ nextId' = nextId + 1
    /\ IF BagData(ev[h]).mapping
       THEN /\ items' = [items EXCEPT ![h] = BagData(ev[h]).entries]
            /\ Goto(h, "items")
       ELSE /\ Goto(h, "except")
            /\ UNCHANGED items
    /\ UNCHANGED << lineItems, profiles, deliveries, ev, profile, attempt, slept, sizes, mails >>

\* LineItem with the size left out of the row
LineItemWithoutSize(o, product, quantity, size) ==
    [ order |-> o.id,
      n |-> Cardinality({l \in lineItems : l.order = o.id}) + 1,
      product |-> product,
      quantity |-> quantity,
      product_size |-> NoneVal ]

\* the OrderLineItem row created for order o
LineItem(o, product, quantity, size) ==
    [ order |-> o.id,
      n |-> Cardinality({l \in lineItems : l.order = o.id}) + 1,
      product |-> product,
      quantity |-> quantity,
      product_size |-> size ]

\* NextItem with Product.DoesNotExist not caught inside the loop: it reaches
\* the outer except block
NextItemUnknownProductFails(h) ==
    /\ pc[h] = "items"
    /\ IF items[h] = << >>
       THEN /\ Goto(h, "notify")
            /\ UNCHANGED << lineItems, items, sizes >>
       ELSE LET it == Head(items[h]) IN
            IF it.id \notin Catalog
            THEN /\ Goto(h, "except")
                 /\ UNCHANGED << lineItems, items, sizes >>
            ELSE IF it.kind = "int"
            THEN /\ \E o \in order[h] :
                        lineItems' = lineItems \cup {LineItem(o, it.id, it.qty, NoneVal)}
                 /\ items' = [items EXCEPT ![h] = Tail(@)]
                 /\ Goto(h, "items")
                 /\ UNCHANGED sizes
            ELSE IF it.kind = "dict"
            THEN IF it.sizes = << >>
                 THEN /\ items' = [items EXCEPT ![h] = Tail(@)]
                      /\ Goto(h, "items")
                      /\ UNCHANGED << lineItems, sizes >>
                 ELSE /\ sizes' = [sizes EXCEPT ![h] = it.sizes]
                      /\ Goto(h, "sizes")
                      /\ UNCHANGED << lineItems, items >>
            ELSE \* item_data.get raises AttributeError
                 /\ Goto(h, "except")
                 /\ UNCHANGED << lineItems, items, sizes >>
    /\ UNCHANGED << orders, profiles, nextId, deliveries, ev, profile, order, attempt,
                    slept, mails >>

\* One pass of  for item_id, item_data in bag_data.items()
NextItem(h) ==
    /\ pc[h] = "items"
    /\ IF items[h] = << >>
       THEN /\ Goto(h, "notify")
            /\ UNCHANGED << lineItems, items, sizes >>
       ELSE LET it == Head(items[h]) IN
            IF it.id \notin Catalog
            THEN \* Product.DoesNotExist: the item is skipped
                 /\ items' = [items EXCEPT ![h] = Tail(@)]
                 /\ Goto(h, "items")
                 /\ UNCHANGED << lineItems, sizes >>
            ELSE IF it.kind = "int"
            THEN /\ \E o \in order[h] :
                        lineItems' = lineItems \cup {LineItem(o, it.id, it.qty, NoneVal)}
                 /\ items' = [items EXCEPT ![h] = Tail(@)]
                 /\ Goto(h, "items")
                 /\ UNCHANGED sizes
            ELSE IF it.kind = "dict"
            THEN IF it.sizes = << >>
                 THEN /\ items' = [items EXCEPT ![h] = Tail(@)]
                      /\ Goto(h, "items")
                      /\ UNCHANGED << lineItems, sizes >>
                 ELSE /\ sizes' = [sizes EXCEPT ![h] = it.sizes]
                      /\ Goto(h, "sizes")
                      /\ UNCHANGED << lineItems, items >>
            ELSE \* item_data.get raises AttributeError
                 /\ Goto(h, "except")
                 /\ UNCHANGED << lineItems, items, sizes >>
    /\ UNCHANGED << orders, profiles, nextId, deliveries, ev, profile, order, attempt,
                    slept, mails >>

\* One pass of  for size, quantity in item_data.get("items_by_size", {}).items()
NextSize(h) ==
    /\ pc[h] = "sizes"
    /\ \E o \in order[h] :
            lineItems' = lineItems \cup
                {LineItem(o, Head(items[h]).id, Head(sizes[h]).qty, Head(sizes[h]).size)}
    /\ sizes' = [sizes EXCEPT ![h] = Tail(@)]
    /\ IF Tail(sizes[h]) = << >>
       THEN /\ items' = [items EXCEPT ![h] = Tail(@)]
            /\ Goto(h, "items")
       ELSE /\ Goto(h, "sizes")
            /\ UNCHANGED items
    /\ UNCHANGED << orders, profiles, nextId, deliveries, ev, profile, order, attempt,
                    slept, mails >>

\* HandleException without the compensating delete
HandleExceptionKeepsOrder(h) ==
    /\ pc[h] = "except"
    /\ Return(h, CreationFailed)
    /\ UNCHANGED << store, deliveries, ev, locals >>

\* except Exception:  if order: order.delete()  (the line items go with the
\* Order), and the 500 response
HandleException(h) ==
    /\ pc[h] = "except"
    /\ orders' = {o \in orders : \A mine \in order[h] : o.id # mine.id}
    /\ lineItems' = {l \in lineItems : \A mine \in order[h] : l.order # mine.id}
    /\ Return(h, CreationFailed)
    /\ UNCHANGED << profiles, nextId, deliveries, ev, locals >>

\* SendNew with a notifier whose exception is not caught
SendNewUncaught(h) ==
    /\ pc[h] = "notify"
    /\ \E delivered \in BOOLEAN, o \in order[h] :
            /\ SendConfirmationEmail(h, o, email_to_send(ev[h]), delivered)
            /\ IF delivered THEN Return(h, Created) ELSE Raise(h, "SMTPException")
    /\ UNCHANGED << store, deliveries, ev, profile, order, attempt, slept, items, sizes >>

\* the confirmation for the new Order and the 200 response
SendNew(h) ==
    /\ pc[h] = "notify"
    /\ \E delivered \in BOOLEAN, o \in order[h] :
            SendConfirmationEmail(h, o, email_to_send(ev[h]), delivered)
    /\ Return(h, Created)
    /\ UNCHANGED << store, deliveries, ev, profile, order, attempt, slept, items, sizes >>

(* ---------------------------------------------------------------------- *)
(* Storage failures                                                        *)
(* ---------------------------------------------------------------------- *)

\* Order.objects.create raises: order stays None
CreateOrderFails(h) ==
    /\ pc[h] = "create"
    /\ Goto(h, "except")
    /\ UNCHANGED << store, deliveries, ev, locals >>

\* OrderLineItem.objects.create raises
LineItemFails(h) ==
    /\ \/ /\ pc[h] = "items"
          /\ items[h] # << >>
          /\ Head(items[h]).id \in Catalog
          /\ Head(items[h]).kind = "int"
       \/ pc[h] = "sizes"
    /\ Goto(h, "except")
    /\ UNCHANGED << store, deliveries, ev, locals >>

(* ---------------------------------------------------------------------- *)
(* Specifications                                                          *)
(* ---------------------------------------------------------------------- *)

\* the statements of one invocation
Run(h) ==
    \/ GetProfile(h)
    \/ SaveProfile(h)
    \/ LookupOrder(h)
    \/ SendExisting(h)
    \/ CreateOrder(h)
    \/ NextItem(h)
    \/ NextSize(h)
    \/ HandleException(h)
    \/ SendNew(h)

\* the storage failures the except block is written for
Fails(h) ==
    \/ CreateOrderFails(h)
    \/ LineItemFails(h)

\* the events delivered while another invocation may be running
RaceEvents == {BaseEvent, EvList, EvMixed}

\* Concurrent deliveries (at least once, to either invocation) against a
\* store whose operations succeed.
Next ==
    \E h \in Handlers :
        \/ \E e \in RaceEvents : Deliver(h, e)
        \/ Run(h)

Spec == Init /\ [][Next]_vars

\* Deliveries one after another, against a store whose operations succeed.
NextSeq ==
    \/ \E e \in Events : Deliver("h1", e)
    \/ Run("h1")

SpecSeq == Init /\ [][NextSeq]_vars

\* Concurrent deliveries against a store whose creations may fail.
NextRaceFaults ==
    \E h \in Handlers :
        \/ \E e \in RaceEvents : Deliver(h, e)
        \/ Run(h)
        \/ Fails(h)

SpecRaceFaults == Init /\ [][NextRaceFaults]_vars


\* the events handed to the handlers that only acknowledge
AckEvents == {BaseEvent, EvList}

\* the dispatch of the webhook view: every kind of event, two invocations
NextDispatch ==
    \E h \in Handlers :
        \/ \E e \in RaceEvents : Deliver(h, e)
        \/ \E e \in AckEvents : HandleEvent(h, e)
        \/ \E e \in AckEvents : HandlePaymentFailed(h, e)
        \/ Run(h)

SpecDispatch == Init /\ [][NextDispatch]_vars

(* ---------------------------------------------------------------------- *)
(* Properties                                                              *)
(* ---------------------------------------------------------------------- *)

\* two stored Orders have the same composite key
SameKey(o1, o2) == Matches(o1, o2)

\* the stored Orders with the composite key of event e
WithKeyOf(e) == {o \in orders : Matches(o, LookupKey(e))}

\* the step is one of invocation h leaving label l
Leaves(h, l) == pc[h] = l /\ pc'[h] # l

\* C1: under every interleaving of concurrent writers for one transaction
\* the Order Store never holds two Orders with the same composite key.
C1_NoDuplicateOrders ==
    \A o1, o2 \in orders : SameKey(o1, o2) => o1.id = o2.id

\* C2: a lookup made while the store holds an Order matching the event's
\* composite key is a hit, whatever the attempt, and the invocation then
\* returns AlreadyRecorded; neither step creates or changes an Order or an
\* OrderLineItem.
C2_MatchReturnsAlreadyRecorded ==
    [][\A h \in Handlers :
        /\ (Leaves(h, "lookup") /\ Found(ev[h]) # {}) =>
                /\ pc'[h] = "found"
                /\ orders' = orders /\ lineItems' = lineItems
        /\ Leaves(h, "found") =>
                /\ pc'[h] = "done" /\ response'[h] = AlreadyRecorded
                /\ orders' = orders /\ lineItems' = lineItems]_vars

\* C3: an invocation whose 5 lookups all missed, with no storage failure,
\* ends with the Created response and its one new Order stored, populated
\* from the event's normalized fields.
C3_MissCreatesOrder ==
    \A h \in Handlers :
        (pc[h] = "done" /\ attempt[h] > MaxAttempts) =>
            /\ response[h] = Created
            /\ \E o \in order[h] :
                /\ o \in orders
                /\ Matches(o, LookupKey(ev[h]))
                /\ \A other \in orders : other.id = o.id => other = o

\* the events e1 and e2 are deliveries for one composite key
SameTransaction(e1, e2) == Matches(OrderFields(e1, NoneVal), LookupKey(e2))

\* C4: deliveries handled one after another with no storage failure: the
\* first one for a composite key returns Created, every later one returns
\* AlreadyRecorded, and after each the store holds exactly one Order with
\* that key.
C4_SequentialRedelivery ==
    /\ \A i \in 1..Len(history) :
        history[i].outcome =
            IF \A j \in 1..(i - 1) : ~SameTransaction(history[j].ev, history[i].ev)
            THEN "Created"
            ELSE "AlreadyRecorded"
    /\ pc["h1"] = "done" => Cardinality(WithKeyOf(ev["h1"])) = 1

\* the rows of the store that belong to the Order object of invocation h
OwnOrders(h) == {o \in orders : \E mine \in order[h] : o.id = mine.id}

OwnLineItems(h) == {l \in lineItems : \E mine \in order[h] : l.order = mine.id}

\* C5: the except block ends in the CreationFailed response (status 500);
\* when the Order had been created it is deleted with its line items by
\* then, and none of them is in the store after the return; when the
\* creation of the Order itself failed the store is left as it is (no
\* delete is issued).
C5_RollbackOnFailure ==
    /\ [][\A h \in Handlers :
            Leaves(h, "except") =>
                /\ pc'[h] = "done"
                /\ response'[h] = CreationFailed
                /\ order'[h] = order[h]
                /\ order[h] = {} => (orders' = orders /\ lineItems' = lineItems)
                /\ orders' \subseteq orders /\ lineItems' \subseteq lineItems
                /\ \A o \in orders \ orders' : o \in OwnOrders(h)
                /\ \A l \in lineItems \ lineItems' : l \in OwnLineItems(h)]_vars
    /\ [](\A h \in Handlers :
            (pc[h] = "done" /\ response[h] = CreationFailed) =>
                (OwnOrders(h) = {} /\ OwnLineItems(h) = {}))
    /\ [](\A h \in Handlers :
            pc[h] = "except" => (response[h] = NoResponse /\ order[h] \subseteq orders))

\* C5 witness: an invocation that created its Order and a line item, failed
\* on a later line item and returned CreationFailed, beside one whose Order
\* creation failed.
C5_Witness ==
    /\ pc["h1"] = "done" /\ response["h1"] = CreationFailed
    /\ order["h1"] # {} /\ ev["h1"] = EvMixed /\ Len(items["h1"]) = 1
    /\ pc["h2"] = "done" /\ response["h2"] = CreationFailed
    /\ order["h2"] = {} /\ attempt["h2"] > MaxAttempts

\* C6: no exception leaves the handler, and the response of every finished
\* invocation is one of AlreadyRecorded (200), Created (200) and
\* CreationFailed (500).
C6_AlwaysAnOutcome ==
    \A h \in Handlers :
        /\ pc[h] # "raised"
        /\ raised[h] = ""
        /\ pc[h] = "done" => response[h] \in {AlreadyRecorded, Created, CreationFailed}

\* C7: the step that sends the confirmation returns AlreadyRecorded after a
\* hit and Created after the creation and leaves Orders, OrderLineItems and
\* profiles as they are, whether the notifier raised or not; a finished
\* invocation whose notifier raised has one of these two responses.
C7_NotifierFailureSwallowed ==
    /\ [][\A h \in Handlers :
            (Leaves(h, "found") \/ Leaves(h, "notify")) =>
                /\ pc'[h] = "done"
                /\ raised'[h] = ""
                /\ response'[h] = IF pc[h] = "found" THEN AlreadyRecorded ELSE Created
                /\ orders' = orders /\ lineItems' = lineItems /\ profiles' = profiles]_vars
    /\ [](\A h \in Handlers :
            (pc[h] \in {"done", "raised"} /\ \E i \in 1..Len(mails[h]) : ~mails[h][i].sent)
                => response[h] \in {AlreadyRecorded, Created})

\* C7 witness: one invocation returned Created and the other AlreadyRecorded,
\* each with a confirmation that had a recipient and was not sent.
C7_Witness ==
    /\ pc["h1"] = "done" /\ response["h1"] = Created
    /\ pc["h2"] = "done" /\ response["h2"] = AlreadyRecorded
    /\ \A h \in Handlers :
        Len(mails[h]) = 1 /\ ~mails[h][1].sent /\ mails[h][1].to # NoRecipient

\* the value the event supplies for each default field of the profile
Supplied(e) ==
    [ default_phone_number |-> e.phone,
      default_country |-> e.country,
      default_postcode |-> e.postal_code,
      default_town_or_city |-> e.city,
      default_street_address1 |-> e.line1,
      default_street_address2 |-> e.line2,
      default_county |-> e.state ]

DefaultFields == DOMAIN Supplied(BaseEvent)

\* C8: a profile changes only in the save of an invocation whose event opts
\* in and names that profile, and the save leaves in every default field the
\* event's value when that is non-empty and the stored value otherwise.
C8_ProfileFrame ==
    [][/\ \A u \in DOMAIN profiles :
            profiles'[u] # profiles[u] =>
                \E h \in Handlers :
                    /\ Leaves(h, "save")
                    /\ ev[h].save_info \in {"true", PyTrue}
                    /\ ev[h].username = u /\ u # "AnonymousUser"
       /\ \A h \in Handlers :
            Leaves(h, "save") =>
                /\ DOMAIN profiles' = DOMAIN profiles
                /\ \A f \in DefaultFields :
                    profiles'[ev[h].username][f] =
                        IF Falsy(Supplied(ev[h])[f])
                        THEN profiles[ev[h].username][f]
                        ELSE Supplied(ev[h])[f]]_vars

\* the line items a cart snapshot prescribes, as (product, quantity, size):
\* one without size for a catalog item with a plain quantity, one per size
\* for a catalog item with items_by_size
Prescribed(b) ==
    LET es == IF JsonLoads(b).ok /\ JsonLoads(b).mapping
              THEN JsonLoads(b).entries ELSE << >>
        inCatalog == {i \in 1..Len(es) : es[i].id \in Catalog}
    IN  {<< es[i].id, es[i].qty, NoneVal >> : i \in {j \in inCatalog : es[j].kind = "int"}}
        \cup UNION {
            {<< es[i].id, es[i].sizes[k].qty, es[i].sizes[k].size >> :
                    k \in 1..Len(es[i].sizes)} :
            i \in {j \in inCatalog : es[j].kind = "dict"}}

RowOf(l) == << l.product, l.quantity, l.product_size >>

\* C9: a line item is only ever created for the Order that the creating
\* invocation created itself, and is one the cart snapshot prescribes; when
\* the invocation returns Created the line items of its Order are exactly
\* the prescribed ones, one row each.
C9_LineItemsAsPrescribed ==
    /\ [][\A l \in lineItems' \ lineItems :
            \E h \in Handlers :
                /\ pc[h] \in {"items", "sizes"}
                /\ attempt[h] > MaxAttempts
                /\ \E mine \in order[h] : l.order = mine.id /\ mine \in orders
                /\ RowOf(l) \in Prescribed(bag(ev[h]))]_vars
    /\ [](\A h \in Handlers :
            (pc[h] = "done" /\ response[h] = Created) =>
                /\ {RowOf(l) : l \in OwnLineItems(h)} = Prescribed(bag(ev[h]))
                /\ Cardinality(OwnLineItems(h)) = Cardinality(Prescribed(bag(ev[h]))))

\* C9 witness: the mixed snapshot was replayed into three line items, two of
\* them sized.
C9_Witness ==
    \E h \in Handlers :
        /\ pc[h] = "done" /\ response[h] = Created /\ ev[h] = EvMixed
        /\ Cardinality(OwnLineItems(h)) = 3
        /\ \E l \in OwnLineItems(h) : l.product_size = "M" /\ l.quantity = 2
        /\ \E l \in OwnLineItems(h) : l.product_size = NoneVal /\ l.quantity = 2

\* the entries of the decoded snapshot b
Entries(b) == IF JsonLoads(b).ok /\ JsonLoads(b).mapping THEN JsonLoads(b).entries ELSE << >>

\* the snapshot names an item id that is not in the catalog, and is as
\* expected otherwise
NamesUnknownItem(b) ==
    /\ JsonLoads(b).ok /\ JsonLoads(b).mapping
    /\ \E i \in 1..Len(Entries(b)) : Entries(b)[i].id \notin Catalog
    /\ \A i \in 1..Len(Entries(b)) :
            Entries(b)[i].id \in Catalog => Entries(b)[i].kind \in {"int", "dict"}

\* C10: with a snapshot that names an item id missing from the catalog, an
\* invocation on the creation path still returns Created and keeps its
\* Order, has no line item for the missing id and has the line items of the
\* entries before and after it.
C10_UnknownItemSkipped ==
    \A h \in Handlers :
        (pc[h] = "done" /\ attempt[h] > MaxAttempts /\ NamesUnknownItem(bag(ev[h]))) =>
            /\ response[h] = Created
            /\ OwnOrders(h) = order[h] /\ order[h] # {}
            /\ \A l \in OwnLineItems(h) : l.product \in Catalog
            /\ \A i \in 1..Len(Entries(bag(ev[h]))) :
                LET it == Entries(bag(ev[h]))[i] IN
                    (it.id \in Catalog /\ (it.kind = "int" \/ it.sizes # << >>)) =>
                        \E l \in OwnLineItems(h) : l.product = it.id

\* C10 witness: the mixed snapshot, whose second entry is item 9, ended in
\* Created with line items for items 2 and 1 and none for item 9.
C10_Witness ==
    \E h \in Handlers :
        /\ pc[h] = "done" /\ response[h] = Created /\ ev[h] = EvMixed
        /\ {l.product : l \in OwnLineItems(h)} = {"1", "2"}

\* C11: an invocation on the creation path whose cart snapshot string does
\* not parse as JSON returns Created and keeps its Order, which stores the
\* snapshot string as it was received, and creates no line item.
C11_UnparseableSnapshot ==
    \A h \in Handlers :
        (pc[h] = "done" /\ attempt[h] > MaxAttempts /\ ~JsonLoads(bag(ev[h])).ok) =>
            /\ response[h] = Created
            /\ order[h] # {} /\ OwnOrders(h) = order[h]
            /\ \A o \in OwnOrders(h) : o.original_bag = ev[h].bag
            /\ OwnLineItems(h) = {}

\* C11 witness: the event with the snapshot "{not json" ended in Created with
\* its Order stored.
C11_Witness ==
    /\ pc["h1"] = "done" /\ ev["h1"] = EvNotJson /\ response["h1"] = Created
    /\ \E o \in orders : o.original_bag = BagNotJson /\ o \in order["h1"]
    /\ lineItems = {}

\* C12: an invocation of handle_event or of
\* handle_payment_intent_payment_failed answers with status 200 in a single
\* step that leaves the orders, the line items and the profiles as they were,
\* looks nothing up (no attempt counted, no wait) and sends no notification.
C12_AcknowledgeOnly ==
    [][(/\ Len(history') = Len(history) + 1
        /\ history'[Len(history')].outcome \in {"Unhandled", "PaymentFailed"}) =>
           /\ history'[Len(history')].status = 200
           /\ orders' = orders /\ lineItems' = lineItems
           /\ profiles' = profiles /\ nextId' = nextId
           /\ \E h \in Handlers :
                /\ pc[h] \in {"idle", "done", "raised"} /\ pc'[h] = "done"
                /\ response'[h].status = 200
                /\ attempt'[h] = 1 /\ slept'[h] = 0
                /\ mails'[h] = << >> /\ order'[h] = {} /\ profile'[h] = {}
                /\ \A g \in Handlers \ {h} :
                       /\ pc'[g] = pc[g] /\ mails'[g] = mails[g]
                       /\ attempt'[g] = attempt[g] /\ response'[g] = response[g]]_vars

\* C12 witness: with an Order already stored for pi_1, one invocation has
\* acknowledged a payment_failed event and the other an unhandled event.
C12_Witness ==
    /\ orders # {} /\ Found(BaseEvent) # {}
    /\ pc["h1"] = "done" /\ response["h1"] = PaymentFailed /\ ev["h1"] = BaseEvent
    /\ pc["h2"] = "done" /\ response["h2"] = Unhandled

\* the lookups an invocation has made so far: one per counted miss, and the
\* one that hit
Lookups(h) == (attempt[h] - 1) + (IF order[h] # {} /\ attempt[h] <= MaxAttempts THEN 1 ELSE 0)

\* C13: an invocation makes at most 5 lookups and none after a hit; it has
\* waited 1 time unit for every miss; it is past the lookups without a hit,
\* and an Order is created, only after exactly 5 misses.
C13_BoundedRetry ==
    /\ [](\A h \in Handlers :
            /\ attempt[h] \in 1 .. (MaxAttempts + 1)
            /\ Lookups(h) <= 5
            /\ slept[h] = (attempt[h] - 1) * 1
            /\ (pc[h] \in {"lookup", "found"}) => attempt[h] <= 5
            /\ (pc[h] \in {"create", "items", "sizes", "except", "notify"}) =>
                   (attempt[h] = 5 + 1 /\ slept[h] = 5)
            /\ (pc[h] = "done" /\ response[h] = AlreadyRecorded) => Lookups(h) <= 5
            /\ (pc[h] = "done" /\ response[h] \in {Created, CreationFailed}) =>
                   (Lookups(h) = 5 /\ slept[h] = 5))
    /\ [][\A h \in Handlers :
            /\ (Leaves(h, "lookup") /\ Found(ev[h]) # {}) =>
                   (attempt'[h] = attempt[h] /\ slept'[h] = slept[h] /\ pc'[h] # "lookup")
            /\ (Leaves(h, "lookup") /\ pc'[h] = "create") =>
                   (attempt[h] = 5 /\ Found(ev[h]) = {})
            /\ Leaves(h, "found") => pc'[h] = "done"
            /\ (pc[h] = "lookup" /\ attempt'[h] # attempt[h]) =>
                   (Found(ev[h]) = {} /\ attempt'[h] = attempt[h] + 1
                    /\ slept'[h] = slept[h] + 1)
            /\ (nextId' # nextId /\ pc[h] = "create" /\ pc'[h] # "create") =>
                   (attempt[h] = 5 + 1 /\ slept[h] = 5)]_vars

\* C13 witness: one invocation hit on its third lookup after two misses and
\* two waits, the other created the Order after five misses.
C13_Witness ==
    /\ pc["h1"] = "done" /\ response["h1"] = AlreadyRecorded
    /\ attempt["h1"] = 3 /\ slept["h1"] = 2
    /\ pc["h2"] = "done" /\ response["h2"] = Created
    /\ attempt["h2"] = MaxAttempts + 1 /\ slept["h2"] = 5

\* the address the priority order gives for an Order and the event of the
\* invocation: stored email, else the event's override, else the account
\* email of the linked profile
PriorityRecipient(o, e) ==
    IF o.email \notin {"", NoneVal} THEN o.email
    ELSE IF e.meta_email \notin {"", NoneVal} THEN e.meta_email
    ELSE IF o.user_profile # NoneVal THEN profiles[o.user_profile].user_email
    ELSE NoRecipient

\* C14: an invocation that returned AlreadyRecorded or Created addressed its
\* notification to the Order's stored email if that is non-empty, else to the
\* override email of the event, else to the account email of the Order's
\* profile.
C14_RecipientPriority ==
    \A h \in Handlers :
        (pc[h] = "done" /\ response[h] \in {AlreadyRecorded, Created}) =>
            /\ Len(mails[h]) = 1
            /\ \A o \in order[h] : mails[h][1].to = PriorityRecipient(o, ev[h])

\* the text fields of the composite key
TextFields ==
    { "stripe_pid", "full_name", "email", "phone_number", "country",
      "postcode", "town_or_city", "street_address1", "street_address2",
      "county", "original_bag" }

\* C15: every text field of the composite key is a defined string, never
\* None, in the key an invocation looks up and in every stored Order, and
\* the Order an invocation creates holds the values of the key it looked up.
C15_DefinedStrings ==
    /\ \A h \in Handlers : pc[h] \in {"lookup", "found", "create"} =>
           \A f \in TextFields : LookupKey(ev[h])[f] # NoneVal
    /\ \A o \in orders : \A f \in TextFields : o[f] # NoneVal
    /\ \A h \in Handlers : attempt[h] > MaxAttempts =>
           \A o \in OwnOrders(h) :
               \A f \in TextFields \cup {"grand_total"} : o[f] = LookupKey(ev[h])[f]

\* a text value of the event as a string
Text(v) == IF v \in {NoneVal, ""} THEN "" ELSE v

\* the stored Order o agrees with the event e in every field of the
\* composite key, letter case of the text fields apart
KeyAgrees(o, e) ==
    /\ o.stripe_pid = e.id
    /\ o.original_bag = (IF e.bag \in {NoneVal, ""} THEN "{}" ELSE e.bag)
    /\ o.grand_total = grand_total(e)
    /\ Lower(o.full_name) = Lower(Text(e.name))
    /\ Lower(o.email) = Lower(Text(billing_email(e)))
    /\ Lower(o.phone_number) = Lower(Text(e.phone))
    /\ Lower(o.country) = Lower(Text(e.country))
    /\ Lower(o.postcode) = Lower(Text(e.postal_code))
    /\ Lower(o.town_or_city) = Lower(Text(e.city))
    /\ Lower(o.street_address1) = Lower(Text(e.line1))
    /\ Lower(o.street_address2) = Lower(Text(e.line2))
    /\ Lower(o.county) = Lower(Text(e.state))

\* C16: a lookup hits only an Order that agrees with the event in every key
\* field, letter case apart: with Orders of the same transaction id that
\* differ in another field it misses, and after the fifth miss the invocation
\* goes on to create a further Order; with one Order that differs in letter
\* case only it hits that Order.
C16_FullKeyMatch ==
    [][\A h \in Handlers :
          (pc[h] = "lookup" /\ (pc'[h] # "lookup" \/ attempt'[h] # attempt[h])) =>
              LET agreeing == {o \in orders : KeyAgrees(o, ev[h])} IN
                  /\ pc'[h] = "found" => (order'[h] # {} /\ order'[h] \subseteq agreeing)
                  /\ agreeing = {} =>
                         /\ attempt'[h] = attempt[h] + 1
                         /\ pc'[h] = IF attempt[h] = 5 THEN "create" ELSE "lookup"
                  /\ Cardinality(agreeing) = 1 =>
                         (pc'[h] = "found" /\ order'[h] = agreeing)]_vars

\* C16 witness: two Orders of transaction pi_1 that differ in the street
\* address are stored, and the event in upper case was matched with the
\* Order stored in mixed case.
C16_Witness ==
    /\ \E o1, o2 \in orders :
           /\ o1.stripe_pid = o2.stripe_pid /\ o1.id # o2.id
           /\ o1.street_address1 = "1 high st" /\ o2.street_address1 = "2 low rd"
    /\ pc["h1"] = "done" /\ ev["h1"] = EvUpper /\ response["h1"] = AlreadyRecorded
    /\ \E o \in order["h1"] : o.full_name = "Ann Lee" /\ o.postcode = "n1 9gu"

\* within one invocation: no notification before the outcome, one on the
\* AlreadyRecorded path after the hit, one on the Created path after the
\* Order and all its line items, none on the CreationFailed path
NotifiedOnceAfterOutcome(h) ==
    /\ Len(mails[h]) <= 1
    /\ pc[h] # "done" => mails[h] = << >>
    /\ (pc[h] = "done" /\ response[h] = AlreadyRecorded) =>
           (Len(mails[h]) = 1 /\ order[h] # {} /\ attempt[h] <= MaxAttempts)
    /\ (pc[h] = "done" /\ response[h] = Created) =>
           /\ Len(mails[h]) = 1
           /\ items[h] = << >> /\ sizes[h] = << >>
           /\ order[h] # {} /\ order[h] \subseteq orders
    /\ (pc[h] = "done" /\ response[h] = CreationFailed) => mails[h] = << >>

\* C17: every invocation attempts the notification once and only after its
\* outcome is decided, never on the CreationFailed path, and no confirmation
\* has been attempted for an Order that the compensating delete removed.
C17_NotifyOnceAfterOutcome ==
    \A h \in Handlers :
        /\ NotifiedOnceAfterOutcome(h)
        /\ mails[h] # << >> => order[h] \subseteq orders

\* the event of h opts in and names a stored profile
OptsIn(h) ==
    /\ ev[h].save_info \in {"true", PyTrue}
    /\ ev[h].username \in DOMAIN profiles

\* the stored profile of h's event holds every non-empty value the event
\* supplies
ProfileUpdated(h) ==
    \A f \in DefaultFields :
        Supplied(ev[h])[f] \notin {NoneVal, ""} =>
            profiles[ev[h].username][f] = Supplied(ev[h])[f]

\* C18: for an opted-in event that names a stored profile, the profile holds
\* the event's values from before the first lookup on and at the return,
\* whatever the outcome; the save comes before any lookup, and the
\* compensating delete leaves the profiles as they are.
C18_ProfileUpdatedWhateverOutcome ==
    /\ [](\A h \in Handlers :
            (OptsIn(h) /\ pc[h] \in {"lookup", "found", "create", "items", "sizes",
                                    "except", "notify", "done"}) =>
                ProfileUpdated(h))
    /\ [][\A h \in Handlers :
            /\ (pc[h] = "profile" /\ pc'[h] # "profile" /\ OptsIn(h)) => pc'[h] = "save"
            /\ Leaves(h, "save") =>
                   (pc'[h] = "lookup" /\ attempt[h] = 1 /\ slept[h] = 0 /\ order[h] = {})
            /\ Leaves(h, "except") =>
                   (response'[h] = CreationFailed /\ profiles' = profiles)]_vars

\* C18 witness: an opted-in event ended in CreationFailed, its Order is gone
\* and the profile holds the town of the event.
C18_Witness ==
    /\ pc["h1"] = "done" /\ ev["h1"] = EvList /\ response["h1"] = CreationFailed
    /\ orders = {}
    /\ profiles["ann"].default_town_or_city = "rome"
    /\ InitialProfile("ann").default_town_or_city # "rome"

\* the snapshot b is valid JSON of another shape than the handler expects:
\* no mapping at the top, or for a catalog item a value that is neither an
\* integer nor a mapping
WrongShape(b) ==
    /\ JsonLoads(b).ok
    /\ \/ ~JsonLoads(b).mapping
       \/ \E i \in 1 .. Len(JsonLoads(b).entries) :
              /\ JsonLoads(b).entries[i].id \in Catalog
              /\ JsonLoads(b).entries[i].kind \notin {"int", "dict"}

\* C19: an invocation on the creation path whose snapshot is valid JSON of
\* the wrong shape returns CreationFailed: the Order it created is stored no
\* more, nor any line item of it, and no notification was attempted; one
\* whose snapshot is no JSON at all returns Created instead.
C19_WrongShapeFails ==
    \A h \in Handlers :
        (pc[h] = "done" /\ attempt[h] > MaxAttempts) =>
            /\ WrongShape(bag(ev[h])) =>
                   /\ response[h] = CreationFailed
                   /\ order[h] # {}
                   /\ OwnOrders(h) = {} /\ OwnLineItems(h) = {}
                   /\ mails[h] = << >>
            /\ ~JsonLoads(bag(ev[h])).ok =>
                   (response[h] = Created /\ OwnOrders(h) # {})

\* C19 witness: the snapshot {"1": "x"} ended in CreationFailed after its
\* Order had been created, and nothing of it is stored.
C19_Witness ==
    /\ pc["h1"] = "done" /\ ev["h1"] = EvBadValue
    /\ response["h1"] = CreationFailed
    /\ order["h1"] # {} /\ OwnOrders("h1") = {}
    /\ mails["h1"] = << >>

====
